---- MODULE Spec2Model ----
(***************************************************************************)
(* Model of the access-control engine of codex                             *)
(* (src/codex/services/accessControlService.js) over its Acl collection    *)
(* (schema in src/README.md:214-249) and the User directory                *)
(* (src/unnamed/part_001:3-9).                                             *)
(*                                                                         *)
(* The Acl collection is a sequence of documents in insertion order.  A    *)
(* stored field is either absent from the document, stored as null, or     *)
(* stored with a value; MongoDB's {$exists: false} matches only the first  *)
(* and {$gt: d} only the last, so expiresAt keeps all three shapes.        *)
(***************************************************************************)
EXTENDS Integers, Sequences, FiniteSets

\* ---------------------------------------------------------------- bounds
MaxGrants == 2
MaxTime == 1

\* ------------------------------------------------------------ vocabulary
NULL == "null"

\* PERMISSIONS, accessControlService.js:6-11
PERMISSIONS == {"read", "write", "delete", "admin"}
ADMIN == "admin"

Resources == {"D1", "D2"}

\* documents of the User collection; "U3" is a well-formed id of no document
Users == {"U1", "U2"}
Principals == Users \cup {"U3"}

\* (user, memberOf) pairs a login may bring from the LDAP directory
LoginInputs == { <<"U1", {}>>, <<"U1", {"eng"}>> }

\* expiresAt as stored: kind is "absent" (no such field in the document),
\* "null" or "date"
Null == [kind |-> "null", at |-> 0]
DateAt(t) == [kind |-> "date", at |-> t]

\* the expiresAt arguments of grantPermission: omitted (the parameter's
\* default, null) or a date
ExpiresInputs == {Null} \cup {DateAt(t) : t \in 1 .. MaxTime}

\* (granteeType, granteeId, granteeName) arguments of grantPermission
GranteeInputs ==
  { <<"user", "U1", NULL>>, <<"user", "U2", NULL>>,
    <<"group", NULL, "eng">>, <<"group", NULL, "ops">>,
    <<"public", NULL, "public">> }

GrantedByInputs == {"U1"}

\* the calls of grantPermission: <<resourceId, grantee, permission,
\* grantedBy, expiresAt>>.  The request body of PUT /:id/permissions is
\* passed on as it came, so next to the well-formed calls there are: a
\* permission outside the enum, a user id of no document, a user grantee
\* without granteeId, a group grantee without granteeName, and a user
\* grantee given with a granteeName
GrantInputs ==
  (Resources \X GranteeInputs \X PERMISSIONS \X GrantedByInputs \X ExpiresInputs)
  \cup { <<"D1", <<"user", "U1", NULL>>, "execute", "U1", Null>>,
         <<"D1", <<"user", "U3", NULL>>, "read", "U1", Null>>,
         <<"D1", <<"user", NULL, NULL>>, "read", "U1", DateAt(MaxTime)>>,
         <<"D1", <<"group", NULL, NULL>>, "read", "U1", DateAt(MaxTime)>>,
         <<"D1", <<"user", "U1", "eng">>, "read", "U1", DateAt(MaxTime)>> }

\* (granteeType, granteeId) arguments of revokePermission
RevokeInputs ==
  { <<"user", "U1">>, <<"user", "U2">>, <<"group", NULL>>, <<"public", NULL>> }

VARIABLES
  acl,      \* the Acl collection, in insertion order
  groups,   \* User collection: user id -> user.groups
  now,      \* the clock read by new Date() / Date.now
  docs,     \* the Document collection and the stored files, by document id
  req,      \* the request a document route is handling
  gcall,    \* the grantPermission calls in flight
  rcall,    \* the revokePermission calls in flight
  hcall     \* the hasPermission call in flight

\* the state of the route handlers and of the calls in flight
handlers == <<docs, req, gcall, rcall, hcall>>

vars == <<acl, groups, now, docs, req, gcall, rcall, hcall>>

\* ------------------------------------------------------- query operators

\* the expiry filter with $gte in place of $gt
ExpiresOkGte(e, t) == e.kind = "absent" \/ (e.kind = "date" /\ e.at >= t)

\* $or: [{expiresAt: {$exists: false}}, {expiresAt: {$gt: new Date()}}]
ExpiresOk(e, t) == e.kind = "absent" \/ (e.kind = "date" /\ e.at > t)

\* active: true plus the expiry filter, shared by every read query
Live(rec, t) == rec.active /\ ExpiresOk(rec.expiresAt, t)

OnResource(rec, rtype, rid) == rec.resourceType = rtype /\ rec.resourceId = rid

Idx(store) == 1 .. Len(store)

\* getPermissionHierarchy(permission)
GetPermissionHierarchy(permission) ==
  CASE permission = "admin" -> {"admin", "delete", "write", "read"}
    [] permission = "delete" -> {"delete", "write", "read"}
    [] permission = "write" -> {"write", "read"}
    [] permission = "read" -> {"read"}
    [] OTHER -> {}

\* the four findOne queries of hasPermission
AdminQuery(store, t, userId, rtype, rid) ==
  \E i \in Idx(store) :
    /\ OnResource(store[i], rtype, rid)
    /\ store[i].granteeType = "user"
    /\ store[i].granteeId = userId
    /\ store[i].permission = ADMIN
    /\ Live(store[i], t)

DirectQuery(store, t, userId, rtype, rid, permission) ==
  \E i \in Idx(store) :
    /\ OnResource(store[i], rtype, rid)
    /\ store[i].granteeType = "user"
    /\ store[i].granteeId = userId
    /\ store[i].permission = permission
    /\ Live(store[i], t)

\* a membership kept from an earlier login in place of the lookup
UserGroupsCached(dir, userId) ==
  IF userId = "U1" THEN {"eng"}
  ELSE IF userId \in DOMAIN dir THEN dir[userId] ELSE {}

\* User.findById(userId).groups, or {} when there is no such user
UserGroups(dir, userId) == IF userId \in DOMAIN dir THEN dir[userId] ELSE {}

GroupQuery(store, dir, t, userId, rtype, rid, permission) ==
  /\ UserGroups(dir, userId) # {}
  /\ \E i \in Idx(store) :
       /\ OnResource(store[i], rtype, rid)
       /\ store[i].granteeType = "group"
       /\ store[i].granteeName \in UserGroups(dir, userId)
       /\ store[i].permission = permission
       /\ Live(store[i], t)

PublicQuery(store, t, rtype, rid, permission) ==
  \E i \in Idx(store) :
    /\ OnResource(store[i], rtype, rid)
    /\ store[i].granteeType = "public"
    /\ store[i].permission = permission
    /\ Live(store[i], t)

\* hasPermission(userId, resourceType, resourceId, permission)
HasPermissionIn(store, dir, t, userId, rtype, rid, permission) ==
  \/ AdminQuery(store, t, userId, rtype, rid)
  \/ DirectQuery(store, t, userId, rtype, rid, permission)
  \/ GroupQuery(store, dir, t, userId, rtype, rid, permission)
  \/ PublicQuery(store, t, rtype, rid, permission)

HasPermission(userId, rid, permission) ==
  HasPermissionIn(acl, groups, now, userId, "document", rid, permission)

\* the documents a find(filter) returns, in the collection's natural order
RECURSIVE FindAll(_, _)
FindAll(store, hits) ==
  IF store = <<>> THEN <<>>
  ELSE LET rest == FindAll(Tail(store), {i - 1 : i \in hits \ {1}})
       IN IF 1 \in hits THEN <<Head(store)>> \o rest ELSE rest

\* acls.map(acl => acl.resourceId)
ResourceIds(acls) == [i \in 1 .. Len(acls) |-> acls[i].resourceId]

\* the three find queries of getUserAccessibleResources
DirectAcls(store, t, userId, rtype, permission) ==
  FindAll(store, {i \in Idx(store) :
    /\ store[i].resourceType = rtype
    /\ store[i].granteeType = "user"
    /\ store[i].granteeId = userId
    /\ store[i].permission \in GetPermissionHierarchy(permission)
    /\ Live(store[i], t)})

GroupAcls(store, dir, t, userId, rtype, permission) ==
  IF UserGroups(dir, userId) = {} THEN <<>>
  ELSE FindAll(store, {i \in Idx(store) :
    /\ store[i].resourceType = rtype
    /\ store[i].granteeType = "group"
    /\ store[i].granteeName \in UserGroups(dir, userId)
    /\ store[i].permission \in GetPermissionHierarchy(permission)
    /\ Live(store[i], t)})

PublicAcls(store, t, rtype, permission) ==
  FindAll(store, {i \in Idx(store) :
    /\ store[i].resourceType = rtype
    /\ store[i].granteeType = "public"
    /\ store[i].permission \in GetPermissionHierarchy(permission)
    /\ Live(store[i], t)})

\* [...new Set(ids)]: a Set compares ObjectId objects by identity, and every
\* document read from the store carries an ObjectId object of its own, so
\* no two entries are the same object and all of them are kept
NewSetOfObjects(ids) == ids

\* getUserAccessibleResources(userId, resourceType, permission)
GetUserAccessibleResourcesIn(store, dir, t, userId, rtype, permission) ==
  NewSetOfObjects(
    ResourceIds(DirectAcls(store, t, userId, rtype, permission))
    \o ResourceIds(GroupAcls(store, dir, t, userId, rtype, permission))
    \o ResourceIds(PublicAcls(store, t, rtype, permission)))

GetUserAccessibleResources(userId, permission) ==
  GetUserAccessibleResourcesIn(acl, groups, now, userId, "document", permission)

\* getResourcePermissions(resourceType, resourceId)
GetResourcePermissionsIn(store, t, rtype, rid) ==
  FindAll(store, {i \in Idx(store) :
    OnResource(store[i], rtype, rid) /\ Live(store[i], t)})

GetResourcePermissions(rid) == GetResourcePermissionsIn(acl, now, "document", rid)

\* the values a sequence holds
Range(seq) == {seq[i] : i \in 1 .. Len(seq)}

\* ------------------------------------------------------------ state, Init

\* no document, no request and no call in flight
NoDocument ==
  [status |-> "none", uploadedBy |-> NULL, lastAccessed |-> Null, stored |-> FALSE]

NoDocs == [d \in Resources |-> NoDocument]

\* route and pc say where the handler stands; checked and allowed are the
\* permission it passed to hasPermission and the answer it got; status is
\* the HTTP status of the last response sent
NoRequest ==
  [route |-> "none", pc |-> "idle", userId |-> NULL, id |-> NULL,
   body |-> <<>>, checked |-> NULL, allowed |-> FALSE, status |-> 0]

NoCall == [pc |-> "idle"]

CallIds == {1, 2}

NoCalls == [c \in CallIds |-> NoCall]

\* the engine alone: an empty Acl collection, the users as their last login
\* left them, no route and no call in flight
Init ==
  /\ acl = <<>>
  /\ groups = [u \in Users |-> IF u = "U2" THEN {"ops"} ELSE {}]
  /\ now = 0
  /\ docs = NoDocs
  /\ req = NoRequest
  /\ gcall = NoCalls
  /\ rcall = NoCalls
  /\ hcall = NoCall

\* ---------------------------------------------------------------- actions

\* the document new Acl({...}) builds; grantedAt and active take the schema
\* defaults, and expiresAt is stored as passed: a null stays a null field
NewAcl(rtype, rid, gtype, gid, gname, permission, grantedBy, expiresAt, t) ==
  [ resourceType |-> rtype,
    resourceId |-> rid,
    granteeType |-> gtype,
    granteeId |-> gid,
    granteeName |-> gname,
    permission |-> permission,
    grantedBy |-> grantedBy,
    grantedAt |-> t,
    expiresAt |-> expiresAt,
    active |-> TRUE ]

\* the validation without the User.findById lookup
GrantErrorNoLookup(dir, gtype, gid, permission) ==
  IF permission \notin PERMISSIONS THEN "Invalid permission" ELSE "none"

\* what grantPermission throws before it writes, "none" when it goes on
GrantError(dir, gtype, gid, permission) ==
  IF permission \notin PERMISSIONS THEN "Invalid permission"
  ELSE IF gtype = "user" /\ gid # NULL /\ gid \notin DOMAIN dir
  THEN "User not found"
  ELSE "none"

\* an upsert in place of the insert: an active record of the same resource,
\* grantee and permission is overwritten by the new document
GrantUpsert(rid, g, permission, grantedBy, expiresAt) ==
  LET new == NewAcl("document", rid, g[1], g[2], g[3],
                    permission, grantedBy, expiresAt, now)
      same == {i \in Idx(acl) :
                 /\ acl[i].active
                 /\ OnResource(acl[i], "document", rid)
                 /\ acl[i].granteeType = g[1]
                 /\ acl[i].granteeId = g[2]
                 /\ acl[i].granteeName = g[3]
                 /\ acl[i].permission = permission}
  IN IF GrantError(groups, g[1], g[2], permission) # "none"
     THEN UNCHANGED vars
     ELSE IF same # {}
     THEN /\ acl' = [i \in Idx(acl) |-> IF i \in same THEN new ELSE acl[i]]
          /\ UNCHANGED <<groups, now, handlers>>
     ELSE /\ Len(acl) < MaxGrants
          /\ acl' = Append(acl, new)
          /\ UNCHANGED <<groups, now, handlers>>

\* grantPermission(...): throws and writes nothing, or saves one new document
Grant(rid, g, permission, grantedBy, expiresAt) ==
  IF GrantError(groups, g[1], g[2], permission) # "none"
  THEN UNCHANGED vars
  ELSE /\ Len(acl) < MaxGrants
       /\ acl' = Append(acl, NewAcl("document", rid, g[1], g[2], g[3],
                                    permission, grantedBy, expiresAt, now))
       /\ UNCHANGED <<groups, now, handlers>>

\* the filter without active: true, so that records already revoked match
RevokeMatchesAnyState(rec, rtype, rid, gtype, gid, permission) ==
  /\ OnResource(rec, rtype, rid)
  /\ rec.granteeType = gtype
  /\ rec.granteeId = gid
  /\ rec.permission = permission

\* the filter with the group's name in it: of the group grants only those
\* to "eng" match
RevokeMatchesOneGroup(rec, rtype, rid, gtype, gid, permission) ==
  /\ OnResource(rec, rtype, rid)
  /\ rec.granteeType = gtype
  /\ rec.granteeId = gid
  /\ gtype = "group" => rec.granteeName = "eng"
  /\ rec.permission = permission
  /\ rec.active

\* the filter of revokePermission's updateMany
RevokeMatches(rec, rtype, rid, gtype, gid, permission) ==
  /\ OnResource(rec, rtype, rid)
  /\ rec.granteeType = gtype
  /\ rec.granteeId = gid
  /\ rec.permission = permission
  /\ rec.active

\* updateOne in place of updateMany: only the first match is deactivated
RevokeStoreFirstOnly(store, rtype, rid, gtype, gid, permission) ==
  [i \in Idx(store) |->
     IF /\ RevokeMatches(store[i], rtype, rid, gtype, gid, permission)
        /\ \A j \in 1 .. (i - 1) :
             ~ RevokeMatches(store[j], rtype, rid, gtype, gid, permission)
     THEN [store[i] EXCEPT !.active = FALSE]
     ELSE store[i]]

\* deleteMany in place of updateMany: the matching records are removed
RevokeStoreDelete(store, rtype, rid, gtype, gid, permission) ==
  FindAll(store, {i \in Idx(store) :
    ~ RevokeMatches(store[i], rtype, rid, gtype, gid, permission)})

\* only the most recent match is deactivated
RevokeStoreLastOnly(store, rtype, rid, gtype, gid, permission) ==
  [i \in Idx(store) |->
     IF /\ RevokeMatches(store[i], rtype, rid, gtype, gid, permission)
        /\ \A j \in (i + 1) .. Len(store) :
             ~ RevokeMatches(store[j], rtype, rid, gtype, gid, permission)
     THEN [store[i] EXCEPT !.active = FALSE]
     ELSE store[i]]

\* revokePermission(...): what updateMany(filter, {active: false}) leaves
RevokeStore(store, rtype, rid, gtype, gid, permission) ==
  [i \in Idx(store) |->
     IF RevokeMatches(store[i], rtype, rid, gtype, gid, permission)
     THEN [store[i] EXCEPT !.active = FALSE]
     ELSE store[i]]

\* revokePermission(...): the modifiedCount it returns
RevokeCount(store, rtype, rid, gtype, gid, permission) ==
  Cardinality({i \in Idx(store) :
                 RevokeMatches(store[i], rtype, rid, gtype, gid, permission)})

Revoke(rid, g, permission) ==
  /\ acl' = RevokeStore(acl, "document", rid, g[1], g[2], permission)
  /\ UNCHANGED <<groups, now, handlers>>

\* POST /login: findOneAndUpdate(..., {groups: memberOf}, {upsert, new})
Login(u, gs) ==
  /\ groups' = [groups EXCEPT ![u] = gs]
  /\ UNCHANGED <<acl, now, handlers>>

\* the clock advances
Tick ==
  /\ now < MaxTime
  /\ now' = now + 1
  /\ UNCHANGED <<acl, groups, handlers>>

\* the read operations as steps: hasPermission runs findOne and findById,
\* getResourcePermissions find and populate, getUserAccessibleResources
\* find and findById; none of them writes
HasPermissionCall == UNCHANGED vars

GetResourcePermissionsCall == UNCHANGED vars

GetUserAccessibleResourcesCall == UNCHANGED vars

Read ==
  HasPermissionCall \/ GetResourcePermissionsCall \/ GetUserAccessibleResourcesCall

GrantStep == \E c \in GrantInputs : Grant(c[1], c[2], c[3], c[4], c[5])

RevokeStep ==
  \E rid \in Resources, g \in RevokeInputs, p \in PERMISSIONS :
    Revoke(rid, g, p)

LoginStep == \E l \in LoginInputs : Login(l[1], l[2])

Next == GrantStep \/ RevokeStep \/ LoginStep \/ Tick \/ Read

Spec == Init /\ [][Next]_vars

\* ------------------------------------------------------ document routes
\* The handlers of src/codex/middleware/auth.js:48-292, one request at a
\* time, cut at the awaits between their reads and writes; other callers
\* of the service, revokes and the clock run in between.

\* req.userId as authenticateToken sets it: the id of a User document
Callers == Users

\* request bodies of PUT /:id/permissions: <<granteeType, granteeId,
\* granteeName, permission>>; the second names a user id of no document
PutBodies ==
  { <<"user", "U2", NULL, "read">>, <<"user", "U3", NULL, "read">> }

\* calls of grantPermission by other callers of the service, with expiresAt
ServiceGrantInputs ==
  Resources \X {<<"user", "U1", NULL>>} \X {"read", "delete", "admin"}
    \X GrantedByInputs \X {DateAt(MaxTime)}

\* the handler has answered with this status and is done
Respond(code) == [NoRequest EXCEPT !.status = code]

Handling(route, pc, userId, id, body, checked, allowed) ==
  [route |-> route, pc |-> pc, userId |-> userId, id |-> id, body |-> body,
   checked |-> checked, allowed |-> allowed, status |-> 0]

\* the _id of a new document: an id no document has yet
FreshId == IF docs["D1"].status = "none" THEN "D1" ELSE "D2"

\* POST /upload, up to document.save(): the file is in storage and the
\* document record is written
UploadSave(u) ==
  /\ req.pc = "idle"
  /\ docs[FreshId].status = "none"
  /\ docs' = [docs EXCEPT ![FreshId] =
                [status |-> "active", uploadedBy |-> u,
                 lastAccessed |-> Null, stored |-> TRUE]]
  /\ req' = Handling("upload", "grant", u, FreshId, <<>>, NULL, FALSE)
  /\ UNCHANGED <<acl, groups, now, gcall, rcall, hcall>>

\* POST /upload, grantPermission('document', document._id, 'user',
\* req.userId, null, ADMIN, req.userId): no expiresAt is passed
UploadGrant ==
  /\ req.route = "upload" /\ req.pc = "grant"
  /\ IF GrantError(groups, "user", req.userId, ADMIN) # "none"
     THEN /\ req' = Respond(500)
          /\ UNCHANGED acl
     ELSE /\ Len(acl) < MaxGrants
          /\ acl' = Append(acl, NewAcl("document", req.id, "user", req.userId,
                                       NULL, ADMIN, req.userId, Null, now))
          /\ req' = Respond(201)
  /\ UNCHANGED <<groups, now, docs, gcall, rcall, hcall>>

\* POST /upload, the grant is rejected by the store (User.findById or
\* aclEntry.save() rejects): the catch block answers 500, the document stays
UploadGrantRejected ==
  /\ req.route = "upload" /\ req.pc = "grant"
  /\ req' = Respond(500)
  /\ UNCHANGED <<acl, groups, now, docs, gcall, rcall, hcall>>

\* the permission check the protected routes open with: 403 on false
CheckThen(route, pc, u, d, body, permission) ==
  /\ req.pc = "idle"
  /\ req' = IF HasPermission(u, d, permission)
            THEN Handling(route, pc, u, d, body, permission, TRUE)
            ELSE Respond(403)
  /\ UNCHANGED <<acl, groups, now, docs, gcall, rcall, hcall>>

\* the route opening with a check of READ in place of ADMIN
PutPermissionsCheckRead(u, d, body) == CheckThen("put", "grant", u, d, body, "read")

\* PUT /:id/permissions: hasPermission(req.userId, 'document', id, ADMIN)
PutPermissionsCheck(u, d, body) == CheckThen("put", "grant", u, d, body, ADMIN)

\* PUT /:id/permissions: grantPermission('document', id, granteeType,
\* granteeId, granteeName, permission, req.userId)
PutPermissionsGrant ==
  /\ req.route = "put" /\ req.pc = "grant"
  /\ IF GrantError(groups, req.body[1], req.body[2], req.body[4]) # "none"
     THEN /\ req' = Respond(500)
          /\ UNCHANGED acl
     ELSE /\ Len(acl) < MaxGrants
          /\ acl' = Append(acl, NewAcl("document", req.id, req.body[1],
                                       req.body[2], req.body[3], req.body[4],
                                       req.userId, Null, now))
          /\ req' = Respond(200)
  /\ UNCHANGED <<groups, now, docs, gcall, rcall, hcall>>

\* GET /:id: hasPermission(req.userId, 'document', documentId, READ)
GetDocumentCheck(u, d) == CheckThen("get", "find", u, d, <<>>, "read")

\* GET /:id: findById, 404 without a document, else lastAccessed is set
GetDocumentFind ==
  /\ req.route = "get" /\ req.pc = "find"
  /\ IF docs[req.id].status = "none"
     THEN /\ req' = Respond(404)
          /\ UNCHANGED docs
     ELSE /\ docs' = [docs EXCEPT ![req.id].lastAccessed = DateAt(now)]
          /\ req' = Respond(200)
  /\ UNCHANGED <<acl, groups, now, gcall, rcall, hcall>>

\* GET /:id/download: hasPermission(..., READ)
DownloadCheck(u, d) == CheckThen("download", "find", u, d, <<>>, "read")

\* GET /:id/download: findById and storageService.download
DownloadSend ==
  /\ req.route = "download" /\ req.pc = "find"
  /\ req' = IF docs[req.id].status = "none" THEN Respond(404) ELSE Respond(200)
  /\ UNCHANGED <<acl, groups, now, docs, gcall, rcall, hcall>>

\* GET /:id/permissions: hasPermission(..., READ)
GetPermissionsCheck(u, d) == CheckThen("permissions", "list", u, d, <<>>, "read")

\* GET /:id/permissions: getResourcePermissions('document', id)
GetPermissionsList ==
  /\ req.route = "permissions" /\ req.pc = "list"
  /\ req' = Respond(200)
  /\ UNCHANGED <<acl, groups, now, docs, gcall, rcall, hcall>>

\* the delete route opening with a check of READ in place of DELETE
DeleteCheckRead(u, d) == CheckThen("delete", "find", u, d, <<>>, "read")

\* DELETE /:id: hasPermission(..., DELETE)
DeleteCheck(u, d) == CheckThen("delete", "find", u, d, <<>>, "delete")

\* DELETE /:id: findById, 404 without a document, else the file is deleted
\* from storage
DeleteFromStorage ==
  /\ req.route = "delete" /\ req.pc = "find"
  /\ IF docs[req.id].status = "none"
     THEN /\ req' = Respond(404)
          /\ UNCHANGED docs
     ELSE /\ docs' = [docs EXCEPT ![req.id].stored = FALSE]
          /\ req' = [req EXCEPT !.pc = "mark"]
  /\ UNCHANGED <<acl, groups, now, gcall, rcall, hcall>>

\* DELETE /:id: document.status = 'deleted', document.save()
DeleteMark ==
  /\ req.route = "delete" /\ req.pc = "mark"
  /\ docs' = [docs EXCEPT ![req.id].status = "deleted"]
  /\ req' = Respond(200)
  /\ UNCHANGED <<acl, groups, now, gcall, rcall, hcall>>

UploadStep == (\E u \in Callers : UploadSave(u)) \/ UploadGrant \/ UploadGrantRejected

PutPermissionsStep ==
  \/ \E u \in Callers, d \in Resources, body \in PutBodies :
       PutPermissionsCheck(u, d, body)
  \/ PutPermissionsGrant

GetDocumentStep ==
  (\E u \in Callers, d \in Resources : GetDocumentCheck(u, d)) \/ GetDocumentFind

DownloadStep ==
  (\E u \in Callers, d \in Resources : DownloadCheck(u, d)) \/ DownloadSend

GetPermissionsStep ==
  (\E u \in Callers, d \in Resources : GetPermissionsCheck(u, d)) \/ GetPermissionsList

DeleteStep ==
  \/ \E u \in Callers, d \in Resources : DeleteCheck(u, d)
  \/ DeleteFromStorage
  \/ DeleteMark

ServiceGrantStep == \E c \in ServiceGrantInputs : Grant(c[1], c[2], c[3], c[4], c[5])

NextRoutes ==
  \/ UploadStep
  \/ PutPermissionsStep
  \/ GetDocumentStep
  \/ DownloadStep
  \/ GetPermissionsStep
  \/ DeleteStep
  \/ ServiceGrantStep
  \/ RevokeStep
  \/ Tick

SpecRoutes == Init /\ [][NextRoutes]_vars

\* ------------------------------------------- concurrent grantPermission
\* Two calls of grantPermission, each cut at its awaits: User.findById
\* (line 110) and aclEntry.save() (line 128).

\* the calls two concurrent callers make: <<resourceId, grantee,
\* permission, grantedBy, expiresAt>>
ConcurrentGrantInputs ==
  {"D1"} \X { <<"user", "U1", NULL>>, <<"user", "U3", NULL>>, <<"group", NULL, "eng">> }
    \X {"read", "admin", "execute"} \X GrantedByInputs \X ExpiresInputs

\* new Acl({...}) of a call: grantedAt is stamped when the document is built
BuiltBy(args, t) ==
  NewAcl("document", args[1], args[2][1], args[2][2], args[2][3],
         args[3], args[4], args[5], t)

\* the call up to its first await: the permission is validated; a user
\* grantee with an id goes on to the lookup, any other grantee has its
\* document built at once
GrantCallStart(c, args) ==
  /\ gcall[c].pc = "idle"
  /\ Len(acl) + Cardinality({k \in CallIds : gcall[k].pc \in {"lookup", "save"}})
       < MaxGrants
  /\ gcall' = [gcall EXCEPT ![c] =
       IF args[3] \notin PERMISSIONS
       THEN [pc |-> "failed", args |-> args, error |-> "Invalid permission"]
       ELSE IF args[2][1] = "user" /\ args[2][2] # NULL
       THEN [pc |-> "lookup", args |-> args]
       ELSE [pc |-> "save", args |-> args, entry |-> BuiltBy(args, now)]]
  /\ UNCHANGED <<acl, groups, now, docs, req, rcall, hcall>>

\* User.findById(granteeId) has answered: no such user throws, else the
\* document is built
GrantCallLookup(c) ==
  /\ gcall[c].pc = "lookup"
  /\ gcall' = [gcall EXCEPT ![c] =
       IF gcall[c].args[2][2] \notin DOMAIN groups
       THEN [pc |-> "failed", args |-> gcall[c].args, error |-> "User not found"]
       ELSE [pc |-> "save", args |-> gcall[c].args,
             entry |-> BuiltBy(gcall[c].args, now)]]
  /\ UNCHANGED <<acl, groups, now, docs, req, rcall, hcall>>

\* a save that a unique index on (resource, grantee, permission) guards:
\* the insert fails when an active record of the tuple is in the store
GrantCallSaveUnique(c) ==
  /\ gcall[c].pc = "save"
  /\ IF \E i \in Idx(acl) :
          /\ acl[i].active
          /\ acl[i].resourceId = gcall[c].entry.resourceId
          /\ acl[i].granteeType = gcall[c].entry.granteeType
          /\ acl[i].granteeId = gcall[c].entry.granteeId
          /\ acl[i].granteeName = gcall[c].entry.granteeName
          /\ acl[i].permission = gcall[c].entry.permission
     THEN /\ gcall' = [gcall EXCEPT ![c] =
                 [pc |-> "failed", args |-> gcall[c].args, error |-> "duplicate key"]]
          /\ UNCHANGED acl
     ELSE /\ acl' = Append(acl, gcall[c].entry)
          /\ gcall' = [gcall EXCEPT ![c] =
                 [pc |-> "done", args |-> gcall[c].args,
                  entry |-> gcall[c].entry, at |-> Len(acl) + 1]]
  /\ UNCHANGED <<groups, now, docs, req, rcall, hcall>>

\* aclEntry.save(): the document is inserted and returned
GrantCallSave(c) ==
  /\ gcall[c].pc = "save"
  /\ acl' = Append(acl, gcall[c].entry)
  /\ gcall' = [gcall EXCEPT ![c] =
       [pc |-> "done", args |-> gcall[c].args,
        entry |-> gcall[c].entry, at |-> Len(acl) + 1]]
  /\ UNCHANGED <<groups, now, docs, req, rcall, hcall>>

GrantCallStep ==
  \E c \in CallIds :
    \/ \E args \in ConcurrentGrantInputs : GrantCallStart(c, args)
    \/ GrantCallLookup(c)
    \/ GrantCallSave(c)

NextGrants == GrantCallStep \/ Tick

SpecGrants == Init /\ [][NextGrants]_vars

\* ------------------------------------------ concurrent revokePermission
\* Two calls of revokePermission.  updateMany is atomic for each document
\* it writes, not for the whole set: a call visits the collection document
\* by document, and at each one tests the filter and sets active: false in
\* one step.  The grants are made before the calls start.

\* <<resourceId, granteeType, granteeId, permission>> of the two callers
ConcurrentRevokeInputs ==
  {"D1"} \X {<<"user", "U1">>, <<"group", NULL>>} \X {"read", "admin"}

\* the grants in the store when the calls start
GrantsBeforeRevokes ==
  {"D1"} \X { <<"user", "U1", NULL>>, <<"group", NULL, "eng">>,
              <<"group", NULL, "ops">> }
    \X {"read", "admin"} \X GrantedByInputs \X {Null}

GrantBeforeRevokes ==
  /\ \A c \in CallIds : rcall[c].pc = "idle"
  /\ \E g \in GrantsBeforeRevokes : Grant(g[1], g[2], g[3], g[4], g[5])

\* updateMany starts; before and first keep, for the comparison with the
\* sequential runs, the store the call started on and whether it started
\* before the other call
RevokeCallStart(c, args) ==
  /\ rcall[c].pc = "idle"
  /\ rcall' = [rcall EXCEPT ![c] =
       [pc |-> "scan", args |-> args, next |-> 1, count |-> 0,
        before |-> acl,
        first |-> \A k \in CallIds \ {c} : rcall[k].pc = "idle"]]
  /\ UNCHANGED <<acl, groups, now, docs, req, gcall, hcall>>

\* the filter is tested on the documents as the call found them at its
\* start, and the write is made whatever the document has become
RevokeCallVisitSnapshot(c) ==
  /\ rcall[c].pc = "scan"
  /\ rcall[c].next <= Len(acl)
  /\ LET i == rcall[c].next
         a == rcall[c].args
         hit == RevokeMatches(rcall[c].before[i], "document", a[1], a[2][1], a[2][2], a[3])
     IN /\ acl' = IF hit THEN [acl EXCEPT ![i].active = FALSE] ELSE acl
        /\ rcall' = [rcall EXCEPT ![c].next = i + 1,
                                  ![c].count = @ + (IF hit THEN 1 ELSE 0)]
  /\ UNCHANGED <<groups, now, docs, req, gcall, hcall>>

\* updateMany at one document: it matches the filter and is modified, or
\* is passed over
RevokeCallVisit(c) ==
  /\ rcall[c].pc = "scan"
  /\ rcall[c].next <= Len(acl)
  /\ LET i == rcall[c].next
         a == rcall[c].args
         hit == RevokeMatches(acl[i], "document", a[1], a[2][1], a[2][2], a[3])
     IN /\ acl' = IF hit THEN [acl EXCEPT ![i].active = FALSE] ELSE acl
        /\ rcall' = [rcall EXCEPT ![c].next = i + 1,
                                  ![c].count = @ + (IF hit THEN 1 ELSE 0)]
  /\ UNCHANGED <<groups, now, docs, req, gcall, hcall>>

\* return result.modifiedCount
RevokeCallReturn(c) ==
  /\ rcall[c].pc = "scan"
  /\ rcall[c].next > Len(acl)
  /\ rcall' = [rcall EXCEPT ![c].pc = "done"]
  /\ UNCHANGED <<acl, groups, now, docs, req, gcall, hcall>>

RevokeCallStep ==
  \E c \in CallIds :
    \/ \E args \in ConcurrentRevokeInputs : RevokeCallStart(c, args)
    \/ RevokeCallVisit(c)
    \/ RevokeCallReturn(c)

NextRevokes == GrantBeforeRevokes \/ RevokeCallStep

SpecRevokes == Init /\ [][NextRevokes]_vars

\* ------------------------------------- hasPermission under mutation
\* One call of hasPermission cut at its awaits: the admin findOne, the
\* direct findOne, User.findById, the group findOne, the public findOne.
\* Each query reads the collection as it is when it runs; grants, revokes
\* and the clock run in between.

\* <<userId, resourceId, permission>> of the call
CheckInputs == {"U1", "U2"} \X {"D1"} \X {"read", "write"}

\* the calls of grantPermission and revokePermission that run beside it
GrantsDuringCheck ==
  {"D1"} \X { <<"user", "U1", NULL>>, <<"user", "U2", NULL>>,
              <<"group", NULL, "ops">>, <<"public", NULL, "public">> }
    \X {"read", "admin"} \X GrantedByInputs \X {DateAt(MaxTime)}

RevokesDuringCheck ==
  {"D1"} \X { <<"user", "U1">>, <<"user", "U2">>, <<"group", NULL>>,
              <<"public", NULL>> } \X {"read", "admin"}

Branches == {"admin", "direct", "group", "public"}

\* the branches of hasPermission whose query finds nothing in a store
BranchesFailing(store, dir, t, userId, rid, permission) ==
  {b \in Branches :
     ~ CASE b = "admin" -> AdminQuery(store, t, userId, "document", rid)
         [] b = "direct" -> DirectQuery(store, t, userId, "document", rid, permission)
         [] b = "group" -> GroupQuery(store, dir, t, userId, "document", rid, permission)
         [] b = "public" -> PublicQuery(store, t, "document", rid, permission)}

\* what a true answer should rest on: some record of the store is an
\* active, unexpired grant on the document to the user, to a group of the
\* user or to public, of a permission that includes the one asked for
Satisfying(store, dir, t, userId, rid, permission) ==
  \E i \in Idx(store) :
    /\ OnResource(store[i], "document", rid)
    /\ store[i].active
    /\ store[i].expiresAt.kind = "absent"
         \/ (store[i].expiresAt.kind = "date" /\ store[i].expiresAt.at > t)
    /\ \/ store[i].granteeType = "user" /\ store[i].granteeId = userId
       \/ store[i].granteeType = "group"
            /\ store[i].granteeName \in UserGroups(dir, userId)
       \/ store[i].granteeType = "public"
    /\ permission \in GetPermissionHierarchy(store[i].permission)

\* the history of the call in flight, brought up to a state the store,
\* the users and the clock have reached: whether an undivided hasPermission
\* was true in every state since the call started, whether a satisfying
\* grant was there in one of them, and which branches' queries found
\* nothing in one of them
Observed(h, store, dir, t) ==
  IF h.pc \in {"idle", "done"} THEN h
  ELSE [h EXCEPT
         !.always = @ /\ HasPermissionIn(store, dir, t, h.userId, "document",
                                         h.resourceId, h.permission),
         !.ever = @ \/ Satisfying(store, dir, t, h.userId, h.resourceId,
                                  h.permission),
         !.missed = @ \cup BranchesFailing(store, dir, t, h.userId,
                                           h.resourceId, h.permission)]

GrantDuringCheck(rid, g, permission, grantedBy, expiresAt) ==
  /\ GrantError(groups, g[1], g[2], permission) = "none"
  /\ Len(acl) < MaxGrants
  /\ acl' = Append(acl, NewAcl("document", rid, g[1], g[2], g[3],
                               permission, grantedBy, expiresAt, now))
  /\ hcall' = Observed(hcall, acl', groups, now)
  /\ UNCHANGED <<groups, now, docs, req, gcall, rcall>>

RevokeDuringCheck(rid, g, permission) ==
  /\ acl' = RevokeStore(acl, "document", rid, g[1], g[2], permission)
  /\ hcall' = Observed(hcall, acl', groups, now)
  /\ UNCHANGED <<groups, now, docs, req, gcall, rcall>>

TickDuringCheck ==
  /\ now < MaxTime
  /\ now' = now + 1
  /\ hcall' = Observed(hcall, acl, groups, now')
  /\ UNCHANGED <<acl, groups, docs, req, gcall, rcall>>

\* hasPermission(userId, 'document', resourceId, permission) is called
HasPermissionStart(userId, rid, permission) ==
  /\ hcall.pc = "idle"
  /\ hcall' = Observed(
       [pc |-> "admin", userId |-> userId, resourceId |-> rid,
        permission |-> permission, userGroups |-> {}, result |-> FALSE,
        always |-> TRUE, ever |-> FALSE, missed |-> {}],
       acl, groups, now)
  /\ UNCHANGED <<acl, groups, now, docs, req, gcall, rcall>>

\* const adminPermission = await Acl.findOne(...); if (adminPermission) return true
HasPermissionAdmin ==
  /\ hcall.pc = "admin"
  /\ hcall' = IF AdminQuery(acl, now, hcall.userId, "document", hcall.resourceId)
              THEN [hcall EXCEPT !.pc = "done", !.result = TRUE]
              ELSE [hcall EXCEPT !.pc = "direct"]
  /\ UNCHANGED <<acl, groups, now, docs, req, gcall, rcall>>

\* the direct query left out: the call goes on to the user lookup
HasPermissionDirectSkipped ==
  /\ hcall.pc = "direct"
  /\ hcall' = [hcall EXCEPT !.pc = "user"]
  /\ UNCHANGED <<acl, groups, now, docs, req, gcall, rcall>>

\* const directPermission = await Acl.findOne(...); if (directPermission) return true
HasPermissionDirect ==
  /\ hcall.pc = "direct"
  /\ hcall' = IF DirectQuery(acl, now, hcall.userId, "document",
                             hcall.resourceId, hcall.permission)
              THEN [hcall EXCEPT !.pc = "done", !.result = TRUE]
              ELSE [hcall EXCEPT !.pc = "user"]
  /\ UNCHANGED <<acl, groups, now, docs, req, gcall, rcall>>

\* const user = await User.findById(userId); the group query is skipped
\* when the user has no groups
HasPermissionUser ==
  /\ hcall.pc = "user"
  /\ LET gs == UserGroups(groups, hcall.userId)
     IN hcall' = [hcall EXCEPT !.userGroups = gs,
                               !.pc = IF gs # {} THEN "group" ELSE "public"]
  /\ UNCHANGED <<acl, groups, now, docs, req, gcall, rcall>>

\* const groupPermission = await Acl.findOne({... granteeName: {$in:
\* user.groups} ...}); if (groupPermission) return true
HasPermissionGroup ==
  /\ hcall.pc = "group"
  /\ hcall' = IF GroupQuery(acl, [u \in {hcall.userId} |-> hcall.userGroups],
                            now, hcall.userId, "document", hcall.resourceId,
                            hcall.permission)
              THEN [hcall EXCEPT !.pc = "done", !.result = TRUE]
              ELSE [hcall EXCEPT !.pc = "public"]
  /\ UNCHANGED <<acl, groups, now, docs, req, gcall, rcall>>

\* const publicPermission = await Acl.findOne(...); return !!publicPermission
HasPermissionPublic ==
  /\ hcall.pc = "public"
  /\ hcall' = [hcall EXCEPT
                 !.pc = "done",
                 !.result = PublicQuery(acl, now, "document", hcall.resourceId,
                                        hcall.permission)]
  /\ UNCHANGED <<acl, groups, now, docs, req, gcall, rcall>>

HasPermissionStep ==
  \/ \E c \in CheckInputs : HasPermissionStart(c[1], c[2], c[3])
  \/ HasPermissionAdmin
  \/ HasPermissionDirect
  \/ HasPermissionUser
  \/ HasPermissionGroup
  \/ HasPermissionPublic

MutationDuringCheck ==
  \/ \E g \in GrantsDuringCheck : GrantDuringCheck(g[1], g[2], g[3], g[4], g[5])
  \/ \E r \in RevokesDuringCheck : RevokeDuringCheck(r[1], r[2], r[3])
  \/ TickDuringCheck

NextCheck == HasPermissionStep \/ MutationDuringCheck

SpecCheck == Init /\ [][NextCheck]_vars

\* ------------------------------------------------- vocabulary of the claims

\* closure(g): the requested permissions a grant of level g satisfies
Closure(g) ==
  CASE g = "admin" -> {"admin", "delete", "write", "read"}
    [] g = "delete" -> {"delete", "write", "read"}
    [] g = "write" -> {"write", "read"}
    [] g = "read" -> {"read"}
    [] OTHER -> {}

\* a grant has no expiry (none was given), or its expiry lies in the future
Unexpired(rec, t) ==
  \/ rec.expiresAt.kind \in {"absent", "null"}
  \/ rec.expiresAt.kind = "date" /\ rec.expiresAt.at > t

\* the same, read off the stored document: the expiresAt field is absent,
\* or holds a date in the future (a field stored as null is C4's case)
UnexpiredAsStored(rec, t) ==
  \/ rec.expiresAt.kind = "absent"
  \/ rec.expiresAt.kind = "date" /\ rec.expiresAt.at > t

\* the grantee of the record is P itself, a group P is in now, or public
Covers(rec, dir, P) ==
  \/ rec.granteeType = "user" /\ rec.granteeId = P
  \/ rec.granteeType = "group" /\ rec.granteeName \in UserGroups(dir, P)
  \/ rec.granteeType = "public"

\* the records of the store that should let P do r on document R at time t
Support(store, dir, t, P, R, r) ==
  {i \in Idx(store) :
     /\ OnResource(store[i], "document", R)
     /\ store[i].active
     /\ UnexpiredAsStored(store[i], t)
     /\ Covers(store[i], dir, P)
     /\ r \in Closure(store[i].permission)}

\* the records of document R whose grantee covers P
Touching(P, R) ==
  {i \in Idx(acl) : OnResource(acl[i], "document", R) /\ Covers(acl[i], groups, P)}

\* ------------------------------------------------------------------ claims

C2_DirectGrantClosure ==
  \A P \in Principals, R \in Resources :
    \A i \in Touching(P, R) :
      ( /\ Touching(P, R) = {i}
        /\ acl[i].granteeType = "user"
        /\ acl[i].active
        /\ UnexpiredAsStored(acl[i], now) )
      => \A x \in PERMISSIONS :
           HasPermission(P, R, x) <=> x \in Closure(acl[i].permission)

\* C3: from a store with no grant on D1, grant('document', D1, 'user', U1,
\* null, 'admin', U1) without expiresAt makes hasPermission(U1, D1, delete)
\* true; the revoke of that tuple then returns 1 and after it
\* hasPermission(U1, D1, delete) is false.
C3_GrantCheckRevokeCheck ==
  [][ ( /\ \A i \in Idx(acl) : acl[i].resourceId # "D1"
        /\ acl' = Append(acl, NewAcl("document", "D1", "user", "U1", NULL,
                                     "admin", "U1", Null, now)) )
      => /\ HasPermissionIn(acl', groups', now', "U1", "document", "D1", "delete")
         /\ RevokeCount(acl', "document", "D1", "user", "U1", "admin") = 1
         /\ ~ HasPermissionIn(
                RevokeStore(acl', "document", "D1", "user", "U1", "admin"),
                groups', now', "U1", "document", "D1", "delete")
    ]_vars

\* C4: a grant created without an expiresAt argument never expires: while
\* its record is active it satisfies hasPermission for the principals it
\* covers, its resource is returned by accessibleResources and the record
\* is listed by getResourcePermissions, at every later time.
C4_NoExpiresAtNeverExpires ==
  \A i \in Idx(acl) :
    (acl[i].expiresAt = Null /\ acl[i].active)
    => /\ acl[i] \in Range(GetResourcePermissions(acl[i].resourceId))
       /\ \A P \in Principals :
            Covers(acl[i], groups, P)
            => /\ HasPermission(P, acl[i].resourceId, acl[i].permission)
               /\ acl[i].resourceId
                    \in Range(GetUserAccessibleResources(P, acl[i].permission))

\* C5: after a successful grant of admin to user P on R, as long as the
\* record is not revoked (and has not run out), hasPermission(P,T,R,x) is
\* true for read, write, delete and admin.
C5_AdminGrantGivesAllFour ==
  \A i \in Idx(acl) :
    ( /\ acl[i].granteeType = "user"
      /\ acl[i].permission = "admin"
      /\ acl[i].active
      /\ Unexpired(acl[i], now) )
    => \A x \in PERMISSIONS : HasPermission(acl[i].granteeId, acl[i].resourceId, x)

\* C6: P belongs to group "eng" and the only grant touching P on D is an
\* active, unexpired group grant of write to "eng": then hasPermission is
\* true for read, true for write and false for admin.
C6_GroupWriteGrant ==
  \A P \in Principals, R \in Resources :
    \A i \in Touching(P, R) :
      ( /\ Touching(P, R) = {i}
        /\ "eng" \in UserGroups(groups, P)
        /\ acl[i].granteeType = "group"
        /\ acl[i].granteeName = "eng"
        /\ acl[i].permission = "write"
        /\ acl[i].active
        /\ UnexpiredAsStored(acl[i], now) )
      => /\ HasPermission(P, R, "read")
         /\ HasPermission(P, R, "write")
         /\ ~ HasPermission(P, R, "admin")

\* C7: an active, unexpired public grant of read on D makes
\* hasPermission(P, 'document', D, read) true for every principal P, also
\* one with no groups, no other grant, or unknown to the directory.
C7_PublicReadForEveryone ==
  \A i \in Idx(acl) :
    ( /\ acl[i].granteeType = "public"
      /\ acl[i].permission = "read"
      /\ acl[i].active
      /\ Unexpired(acl[i], now) )
    => \A P \in Principals : HasPermission(P, acl[i].resourceId, "read")

\* the records a step deactivates
Deactivated == {i \in Idx(acl) : acl[i].active /\ ~ acl'[i].active}

\* the active records with the resource, grantee kind, grantee id and
\* permission of record d: the tuple of the revoke that deactivates d
SameTuple(d) ==
  {j \in Idx(acl) :
     /\ acl[j].active
     /\ acl[j].resourceType = acl[d].resourceType
     /\ acl[j].resourceId = acl[d].resourceId
     /\ acl[j].granteeType = acl[d].granteeType
     /\ acl[j].granteeId = acl[d].granteeId
     /\ acl[j].permission = acl[d].permission}

\* C8: after revoke(T,R,kind,granteeId,perm) returned N > 0, a decision
\* that was true only because of records of the revoked tuple is false, and
\* a decision that is still true has another active, unexpired grant, not
\* of the revoked tuple, that satisfies the request; from then on, whatever
\* step follows, a true decision rests on a grant that is still active.
C8_RevocationFinality ==
  [][ /\ \A d \in Deactivated :
          \A P \in Principals, R \in Resources, r \in PERMISSIONS :
            /\ ( /\ HasPermission(P, R, r)
                 /\ Support(acl, groups, now, P, R, r) \subseteq SameTuple(d) )
               => ~ HasPermissionIn(acl', groups', now', P, "document", R, r)
            /\ HasPermissionIn(acl', groups', now', P, "document", R, r)
               => Support(acl', groups', now', P, R, r) \ SameTuple(d) # {}
      /\ (vars' # vars /\ \E i \in Idx(acl') : ~ acl'[i].active)
         => \A P \in Principals, R \in Resources, r \in PERMISSIONS :
              HasPermissionIn(acl', groups', now', P, "document", R, r)
              => Support(acl', groups', now', P, R, r) # {}
    ]_vars

\* a revoke has deactivated a grant that had not run out, and its user is
\* denied what the grant gave
C8_Witness ==
  \E i \in Idx(acl) :
    /\ ~ acl[i].active
    /\ acl[i].granteeType = "user"
    /\ UnexpiredAsStored(acl[i], now)
    /\ ~ HasPermission(acl[i].granteeId, acl[i].resourceId, acl[i].permission)

\* the expiry time of the record is not later than t
Expired(rec, t) == rec.expiresAt.kind = "date" /\ rec.expiresAt.at <= t

\* the store as it would be had the expired records never been written
WithoutExpired(store, t) ==
  FindAll(store, {i \in Idx(store) : ~ Expired(store[i], t)})

\* C9: a grant whose expiresAt is not later than the current time counts
\* for nothing although its active flag is still true: hasPermission and
\* accessibleResources answer as if the record were not in the store, and
\* getResourcePermissions does not list it.
C9_ExpiredGrantNeverCounts ==
  LET kept == WithoutExpired(acl, now)
  IN /\ \A P \in Principals, R \in Resources, r \in PERMISSIONS :
          HasPermission(P, R, r)
            <=> HasPermissionIn(kept, groups, now, P, "document", R, r)
     /\ \A P \in Principals, r \in PERMISSIONS :
          GetUserAccessibleResources(P, r)
            = GetUserAccessibleResourcesIn(kept, groups, now, P, "document", r)
     /\ \A R \in Resources :
          \A rec \in Range(GetResourcePermissions(R)) : ~ Expired(rec, now)

\* an admin grant that was in force when it was made has run out with the
\* clock alone: the record is still active and its user is denied
C9_Witness ==
  \E i \in Idx(acl) :
    /\ acl[i].active
    /\ Expired(acl[i], now)
    /\ acl[i].grantedAt < acl[i].expiresAt.at
    /\ acl[i].granteeType = "user"
    /\ acl[i].permission = "admin"
    /\ ~ HasPermission(acl[i].granteeId, acl[i].resourceId, "read")
    /\ acl[i].resourceId \notin Range(GetUserAccessibleResources(acl[i].granteeId, "admin"))

\* C10: accessibleResources(P,T,r) is exactly the set of resource ids R for
\* which hasPermission(P,T,R,r) is true on the same store, groups and time.
C10_AccessibleIsHasPermission ==
  \A P \in Principals, r \in PERMISSIONS :
    Range(GetUserAccessibleResources(P, r))
      = {R \in Resources : HasPermission(P, R, r)}

\* C11: accessibleResources(P,T,r) contains R if and only if the store
\* holds an active, unexpired grant on (T,R) to P, to one of P's current
\* groups or to public whose permission g has r in closure(g): a resource
\* held only through an admin, delete or write grant is returned for read,
\* and one held only through a read grant is not returned for write, delete
\* or admin.
C11_AccessibleIffSatisfyingGrant ==
  \A P \in Principals, R \in Resources, r \in PERMISSIONS :
    R \in Range(GetUserAccessibleResources(P, r))
      <=> Support(acl, groups, now, P, R, r) # {}

\* C12: the result of accessibleResources never holds the same resourceId
\* twice, also when the resource is reachable through several grants (a
\* direct and a public grant, a direct and a group grant, or duplicate
\* grants of one kind).
C12_NoResourceIdTwice ==
  \A P \in Principals, r \in PERMISSIONS :
    LET ids == GetUserAccessibleResources(P, r)
    IN \A i, j \in 1 .. Len(ids) : ids[i] = ids[j] => i = j

\* the active records of the store with the five arguments of a revoke
ActiveMatching(store, T, R, kind, granteeId, perm) ==
  {i \in Idx(store) :
     /\ store[i].active
     /\ store[i].resourceType = T
     /\ store[i].resourceId = R
     /\ store[i].granteeType = kind
     /\ store[i].granteeId = granteeId
     /\ store[i].permission = perm}

\* C13: revoke(T,R,kind,granteeId,perm) sets active to false on every
\* record that is active and matches the five arguments (all duplicates),
\* changes nothing else, and returns exactly the number of records it
\* deactivated; with no matching active record it returns 0 and the store
\* stays as it was.
C13_RevokeDeactivatesAllMatching ==
  \A R \in Resources, g \in RevokeInputs, perm \in PERMISSIONS :
    LET M == ActiveMatching(acl, "document", R, g[1], g[2], perm)
        after == RevokeStore(acl, "document", R, g[1], g[2], perm)
        N == RevokeCount(acl, "document", R, g[1], g[2], perm)
    IN /\ Len(after) = Len(acl)
       /\ \A i \in M : after[i] = [acl[i] EXCEPT !.active = FALSE]
       /\ \A i \in Idx(acl) \ M : after[i] = acl[i]
       /\ N = Cardinality({i \in Idx(acl) : acl[i].active /\ ~ after[i].active})
       /\ M = {} => (N = 0 /\ after = acl)

\* two active duplicates of one tuple: the revoke of the tuple returns 2
\* and leaves both inactive
C13_Witness ==
  \E i, j \in Idx(acl) :
    /\ i < j
    /\ acl[i].active /\ acl[j].active
    /\ j \in SameTuple(i)
    /\ acl[i].granteeType = "user"
    /\ RevokeCount(acl, "document", acl[i].resourceId, "user",
                   acl[i].granteeId, acl[i].permission) = 2
    /\ LET after == RevokeStore(acl, "document", acl[i].resourceId, "user",
                                acl[i].granteeId, acl[i].permission)
       IN ~ after[i].active /\ ~ after[j].active

\* C14: of two identical revoke calls in a row, with no grant in between,
\* the first returns some N and the second returns 0; the second changes
\* no record.
C14_RevokeTwice ==
  \A R \in Resources, g \in RevokeInputs, perm \in PERMISSIONS :
    LET after == RevokeStore(acl, "document", R, g[1], g[2], perm)
    IN /\ RevokeCount(after, "document", R, g[1], g[2], perm) = 0
       /\ RevokeStore(after, "document", R, g[1], g[2], perm) = after

\* the state a revoke that returned N > 0 leaves: the same call now
\* returns 0 and changes nothing
C14_Witness ==
  \E i \in Idx(acl) :
    /\ ~ acl[i].active
    /\ RevokeCount(acl, acl[i].resourceType, acl[i].resourceId,
                   acl[i].granteeType, acl[i].granteeId, acl[i].permission) = 0
    /\ RevokeStore(acl, acl[i].resourceType, acl[i].resourceId,
                   acl[i].granteeType, acl[i].granteeId, acl[i].permission) = acl

\* C15: every successful grant call adds exactly one new active record,
\* carrying the call's resource, grantee and permission, at the end of the
\* store and leaves every record that was there as it was, also when an
\* identical active record exists: nothing is merged, updated or replaced,
\* and k identical calls leave k records.
C15_GrantAlwaysInserts ==
  [][ acl' # acl
      => \A c \in GrantInputs :
           ( /\ GrantError(groups, c[2][1], c[2][2], c[3]) = "none"
             /\ Grant(c[1], c[2], c[3], c[4], c[5]) )
           => /\ Len(acl') = Len(acl) + 1
              /\ \A i \in Idx(acl) : acl'[i] = acl[i]
              /\ LET new == acl'[Len(acl')]
                 IN /\ new.active
                    /\ new.resourceType = "document"
                    /\ new.resourceId = c[1]
                    /\ new.granteeType = c[2][1]
                    /\ new.granteeId = c[2][2]
                    /\ new.granteeName = c[2][3]
                    /\ new.permission = c[3]
                    /\ new.grantedAt = now
    ]_vars

\* a grant made while an identical active record was in the store: both
\* records are there, the older one untouched
C15_Witness ==
  /\ Len(acl) = 2
  /\ acl[1].active /\ acl[2].active
  /\ acl[1].resourceId = acl[2].resourceId
  /\ acl[1].granteeType = acl[2].granteeType
  /\ acl[1].granteeId = acl[2].granteeId
  /\ acl[1].granteeName = acl[2].granteeName
  /\ acl[1].permission = acl[2].permission
  /\ acl[1].grantedAt < acl[2].grantedAt

\* records i and j are two grants of one (resource, grantee, permission)
Identical(store, i, j) ==
  /\ i # j
  /\ store[i].resourceType = store[j].resourceType
  /\ store[i].resourceId = store[j].resourceId
  /\ store[i].granteeType = store[j].granteeType
  /\ store[i].granteeId = store[j].granteeId
  /\ store[i].granteeName = store[j].granteeName
  /\ store[i].permission = store[j].permission

InvalidPermissionCalls ==
  {c \in GrantInputs : c[3] \notin {"read", "write", "delete", "admin"}}

\* the grant calls with a valid permission, grantee kind user and a
\* granteeId that is the id of no existing principal
UnknownUserCalls ==
  {c \in GrantInputs :
     /\ c[3] \in {"read", "write", "delete", "admin"}
     /\ c[2][1] = "user"
     /\ c[2][2] # NULL
     /\ c[2][2] \notin Users}

\* C17: grant fails and writes nothing when the permission is not one of
\* read, write, delete, admin (validation error), and when the grantee
\* kind is user and the granteeId given is the id of no existing principal
\* (not-found error): no step that changes the store is a step of such a
\* call.
C17_GrantRejectsAndWritesNothing ==
  [][ acl' # acl
      => /\ \A c \in InvalidPermissionCalls :
              /\ GrantError(groups, c[2][1], c[2][2], c[3]) = "Invalid permission"
              /\ ~ Grant(c[1], c[2], c[3], c[4], c[5])
         /\ \A c \in UnknownUserCalls :
              /\ GrantError(groups, c[2][1], c[2][2], c[3]) = "User not found"
              /\ ~ Grant(c[1], c[2], c[3], c[4], c[5])
    ]_vars

\* a store with grants in it where calls of both kinds are refused, and no
\* record carries a refused permission or a refused grantee
C17_Witness ==
  /\ Len(acl) = MaxGrants
  /\ \E c \in InvalidPermissionCalls :
       GrantError(groups, c[2][1], c[2][2], c[3]) = "Invalid permission"
  /\ \E c \in UnknownUserCalls :
       GrantError(groups, c[2][1], c[2][2], c[3]) = "User not found"
  /\ \A i \in Idx(acl) :
       /\ acl[i].permission \in PERMISSIONS
       /\ acl[i].granteeId \in Users \cup {NULL}

\* C18: in every reachable store every grant record has exactly the fields
\* its grantee kind requires: granteeId is populated if and only if the
\* kind is user, granteeName if and only if the kind is group or public,
\* never both; grant refuses every other combination before it writes.
C18_FieldsMatchKind ==
  \A i \in Idx(acl) :
    /\ acl[i].granteeId # NULL <=> acl[i].granteeType = "user"
    /\ acl[i].granteeName # NULL <=> acl[i].granteeType \in {"group", "public"}

C20_ResourcePermissionsExactAndOrdered ==
  \A R \in Resources :
    LET listed == GetResourcePermissions(R)
        due == {i \in Idx(acl) :
                  /\ OnResource(acl[i], "document", R)
                  /\ acl[i].active
                  /\ Unexpired(acl[i], now)}
    IN /\ Range(listed) = {acl[i] : i \in due}
       /\ Len(listed) = Cardinality(due)
       /\ \A i, j \in 1 .. Len(listed) :
            i < j => listed[i].grantedAt <= listed[j].grantedAt

\* the group names of the directory
GroupNames == {"eng", "ops"}

\* the groups the directory lists for P now
Listed(P) == IF P \in DOMAIN groups THEN groups[P] ELSE {}

\* the store without the grants to group G
WithoutGroup(store, G) ==
  FindAll(store, {i \in Idx(store) :
    ~ (store[i].granteeType = "group" /\ store[i].granteeName = G)})

\* C27: group membership is read from the directory at each decision: when
\* the directory does not list group G for P, hasPermission and
\* accessibleResources answer P as if no grant to G were stored, and when it
\* lists G, an active, unexpired grant of r to G on R makes hasPermission
\* (P,R,r) true and puts R into accessibleResources(P,r); this holds in the
\* state every login leaves, with no grant or revoke needed.
C27_GroupMembershipReadFresh ==
  \A P \in Principals, G \in GroupNames :
    /\ G \notin Listed(P)
       => /\ \A R \in Resources, r \in PERMISSIONS :
               HasPermission(P, R, r)
                 <=> HasPermissionIn(WithoutGroup(acl, G), groups, now, P,
                                     "document", R, r)
          /\ \A r \in PERMISSIONS :
               GetUserAccessibleResources(P, r)
                 = GetUserAccessibleResourcesIn(WithoutGroup(acl, G), groups,
                                                now, P, "document", r)
    /\ G \in Listed(P)
       => \A i \in Idx(acl) :
            ( /\ acl[i].granteeType = "group"
              /\ acl[i].granteeName = G
              /\ acl[i].active
              /\ UnexpiredAsStored(acl[i], now) )
            => /\ HasPermission(P, acl[i].resourceId, acl[i].permission)
               /\ acl[i].resourceId
                    \in Range(GetUserAccessibleResources(P, acl[i].permission))

\* U1 has logged in as a member of "eng" and is served by a grant to "eng"
\* that no user grant or public grant backs
C27_Witness ==
  /\ groups["U1"] = {"eng"}
  /\ \E i \in Idx(acl) :
       /\ acl[i].granteeType = "group"
       /\ acl[i].granteeName = "eng"
       /\ acl[i].active
       /\ UnexpiredAsStored(acl[i], now)
       /\ Touching("U1", acl[i].resourceId) = {i}
       /\ HasPermission("U1", acl[i].resourceId, acl[i].permission)
       /\ ~ HasPermissionIn(acl, [groups EXCEPT !["U1"] = {}], now, "U1",
                            "document", acl[i].resourceId, acl[i].permission)

\* the active group grants of permission perm on document R
ActiveGroupGrants(store, R, perm) ==
  {i \in Idx(store) :
     /\ store[i].active
     /\ OnResource(store[i], "document", R)
     /\ store[i].granteeType = "group"
     /\ store[i].granteeId = NULL
     /\ store[i].permission = perm}

\* C28: revoke identifies a group grantee by kind only:
\* revoke(T,R,'group',null,perm) deactivates the active grants of perm on
\* (T,R) of every group, whatever the granteeName, and no revoke call
\* deactivates the grant of one group and leaves the same-permission grant
\* of another group on the same resource active.
C28_GroupRevokeIgnoresName ==
  /\ \A R \in Resources, perm \in PERMISSIONS :
       LET after == RevokeStore(acl, "document", R, "group", NULL, perm)
       IN \A i \in ActiveGroupGrants(acl, R, perm) : ~ after[i].active
  /\ \A R \in Resources, g \in RevokeInputs, perm \in PERMISSIONS :
       LET after == RevokeStore(acl, "document", R, g[1], g[2], perm)
       IN \A i, j \in Idx(acl) :
            {i, j} \subseteq ActiveGroupGrants(acl, acl[i].resourceId, acl[i].permission)
            => after[i].active = after[j].active

\* grants of one permission on one document to two groups, both active:
\* the group revoke takes both
C28_Witness ==
  \E i, j \in Idx(acl) :
    /\ acl[i].granteeName = "eng" /\ acl[j].granteeName = "ops"
    /\ acl[i].resourceId = acl[j].resourceId
    /\ {i, j} \subseteq ActiveGroupGrants(acl, acl[i].resourceId, acl[i].permission)
    /\ LET after == RevokeStore(acl, "document", acl[i].resourceId, "group",
                                NULL, acl[i].permission)
       IN ~ after[i].active /\ ~ after[j].active

\* C21: in every reachable state, also when the grant step of an upload
\* has failed or the handler stands between its two writes, every document
\* record the upload flow created has an admin grant for its uploader,
\* granted by the uploader.
C21_DocumentHasUploaderAdmin ==
  \A d \in Resources :
    docs[d].status # "none"
    => \E i \in Idx(acl) :
         /\ OnResource(acl[i], "document", d)
         /\ acl[i].granteeType = "user"
         /\ acl[i].granteeId = docs[d].uploadedBy
         /\ acl[i].permission = "admin"
         /\ acl[i].grantedBy = docs[d].uploadedBy

\* C22: the permissions-update route calls hasPermission(caller,
\* 'document', id, admin) first and goes on to grant only when the answer
\* was true; on false it answers 403 and writes no grant record; every
\* record the route writes is written by a handler whose admin check on
\* that document, for that caller, returned true.
C22_PermissionMutationGatedByAdmin ==
  [][ req' # req
      => /\ \A u \in Callers, d \in Resources, body \in PutBodies :
              PutPermissionsCheck(u, d, body)
              => /\ acl' = acl
                 /\ IF HasPermission(u, d, "admin")
                    THEN req'.route = "put" /\ req'.pc = "grant" /\ req'.status = 0
                    ELSE req'.pc = "idle" /\ req'.status = 403
         /\ (req.route = "put" /\ acl' # acl)
            => /\ req.checked = "admin"
               /\ req.allowed
               /\ Len(acl') = Len(acl) + 1
               /\ acl'[Len(acl')].resourceId = req.id
               /\ acl'[Len(acl')].grantedBy = req.userId
    ]_vars

\* the route has written a grant for U2 on behalf of U1 and answered 200
C22_Witness ==
  /\ req.status = 200
  /\ \E i \in Idx(acl) :
       /\ acl[i].granteeId = "U2"
       /\ acl[i].grantedBy = "U1"
       /\ acl[i].expiresAt = Null
       /\ acl[i].permission = "read"

\* the permission each protected route has to hold a true decision for
Required(route) == IF route = "delete" THEN "delete" ELSE "read"

\* C23: get, download and get-permissions go on only after
\* hasPermission(caller,'document',id,read) returned true, and delete only
\* after hasPermission(caller,'document',id,delete) returned true; on a
\* false decision the handler answers 403 and changes nothing: no
\* lastAccessed update, no storage delete, no status change.
C23_ProtectedActionsAfterDecision ==
  [][ (req' # req \/ docs' # docs)
      => /\ \A u \in Callers, d \in Resources :
              /\ ( \/ GetDocumentCheck(u, d)
                   \/ DownloadCheck(u, d)
                   \/ GetPermissionsCheck(u, d) )
                 => /\ docs' = docs /\ acl' = acl
                    /\ IF HasPermission(u, d, "read")
                       THEN req'.pc # "idle" /\ req'.allowed /\ req'.status = 0
                       ELSE req'.pc = "idle" /\ req'.status = 403
              /\ DeleteCheck(u, d)
                 => /\ docs' = docs /\ acl' = acl
                    /\ IF HasPermission(u, d, "delete")
                       THEN req'.pc # "idle" /\ req'.allowed /\ req'.status = 0
                       ELSE req'.pc = "idle" /\ req'.status = 403
         /\ \A d \in Resources :
              /\ (docs[d].status # "none" /\ docs'[d].lastAccessed # docs[d].lastAccessed)
                 => /\ req.route = "get" /\ req.id = d
                    /\ req.checked = "read" /\ req.allowed
              /\ (docs[d].status # "none"
                    /\ (docs'[d].stored # docs[d].stored \/ docs'[d].status # docs[d].status))
                 => /\ req.route = "delete" /\ req.id = d
                    /\ req.checked = "delete" /\ req.allowed
         /\ (req.route \in {"get", "download", "permissions", "delete"}
               /\ req'.status \in {200, 404})
            => req.checked = Required(req.route) /\ req.allowed
    ]_vars

\* a document was deleted by a caller whose delete decision was true, and
\* was read before that
C23_Witness ==
  \E d \in Resources :
    /\ docs[d].status = "deleted"
    /\ ~ docs[d].stored
    /\ docs[d].lastAccessed # Null
    /\ req.status = 200

\* C29: every grant record the permissions-update route inserts is
\* inserted while its caller still holds admin on the resource: at the
\* step that writes the record, hasPermission(caller,'document',id,admin)
\* is true, whatever revokes and clock ticks ran since the route's check.
C29_InsertWhileCallerHoldsAdmin ==
  [][ (req.route = "put" /\ req' # req /\ acl' # acl)
      => HasPermission(req.userId, req.id, "admin")
    ]_vars

\* the two calls are on one (resource, grantee, permission) tuple
SameTupleCalls ==
  /\ \A c \in CallIds : gcall[c].pc # "idle"
  /\ gcall[1].args[1] = gcall[2].args[1]
  /\ gcall[1].args[2] = gcall[2].args[2]
  /\ gcall[1].args[3] = gcall[2].args[3]

\* C24: concurrent grant calls never conflict: in every interleaving a call
\* fails only on its own arguments (permission outside the enum, user id
\* of no principal), never because of the other call; a call that returned
\* has its own record in the store, at a place of its own and as it built
\* it, and two calls on one tuple that both returned leave two separate
\* records.
C24_ConcurrentGrantsNeverConflict ==
  /\ \A c \in CallIds :
       /\ gcall[c].pc = "failed"
          => /\ GrantError(groups, gcall[c].args[2][1], gcall[c].args[2][2],
                           gcall[c].args[3]) # "none"
             /\ gcall[c].error = GrantError(groups, gcall[c].args[2][1],
                                            gcall[c].args[2][2], gcall[c].args[3])
       /\ gcall[c].pc = "done"
          => /\ gcall[c].at \in Idx(acl)
             /\ acl[gcall[c].at] = gcall[c].entry
             /\ acl[gcall[c].at].active
  /\ (gcall[1].pc = "done" /\ gcall[2].pc = "done")
     => /\ gcall[1].at # gcall[2].at
        /\ Len(acl) = 2

\* two calls on one tuple were in flight together (the second document was
\* built before the first was saved) and both have returned: two records
C24_Witness ==
  /\ SameTupleCalls
  /\ gcall[1].pc = "done" /\ gcall[2].pc = "done"
  /\ gcall[1].args[2][1] = "user"
  /\ gcall[1].at = 2 /\ gcall[2].at = 1
  /\ gcall[1].entry.grantedAt < gcall[2].entry.grantedAt
  /\ Len(acl) = 2

\* revoke with the arguments a of a call, run in one piece on a store
RevokedBy(store, a) == RevokeStore(store, "document", a[1], a[2][1], a[2][2], a[3])

MatchedBy(store, a) ==
  {i \in Idx(store) :
     RevokeMatches(store[i], "document", a[1], a[2][1], a[2][2], a[3])}

\* C25: concurrent revoke calls commute: once the calls have returned, the
\* store is the one that running them one after the other, in either
\* order, on the store they started from would leave; each record that
\* matched one of them is inactive; and the counts they returned add up to
\* the number of records that were active and matching before the calls.
C25_ConcurrentRevokesCommute ==
  /\ (rcall[1].pc = "done" /\ rcall[2].pc = "done")
     => LET S0 == IF rcall[1].first THEN rcall[1].before ELSE rcall[2].before
            a1 == rcall[1].args
            a2 == rcall[2].args
        IN /\ acl = RevokedBy(RevokedBy(S0, a1), a2)
           /\ acl = RevokedBy(RevokedBy(S0, a2), a1)
           /\ \A i \in MatchedBy(S0, a1) \cup MatchedBy(S0, a2) : ~ acl[i].active
           /\ rcall[1].count + rcall[2].count
                = Cardinality(MatchedBy(S0, a1) \cup MatchedBy(S0, a2))
  /\ \A c \in CallIds :
       (rcall[c].pc = "done" /\ \A k \in CallIds \ {c} : rcall[k].pc = "idle")
       => /\ acl = RevokedBy(rcall[c].before, rcall[c].args)
          /\ rcall[c].count = Cardinality(MatchedBy(rcall[c].before, rcall[c].args))

\* two calls with the same arguments ran interleaved on two matching
\* records: each deactivated one of them and returned 1
C25_Witness ==
  /\ rcall[1].pc = "done" /\ rcall[2].pc = "done"
  /\ rcall[1].args = rcall[2].args
  /\ rcall[1].count = 1 /\ rcall[2].count = 1
  /\ Len(acl) = 2
  /\ ~ acl[1].active /\ ~ acl[2].active

\* C26: hasPermission takes no shared snapshot: its queries read the live
\* store one after another, so a false result says only that each branch's
\* query found nothing at some instant of the call, not that they all
\* found nothing at one instant.
C26_FalseMeansEachBranchFailedOnce ==
  (hcall.pc = "done" /\ ~ hcall.result) => hcall.missed = Branches

\* the call returned false although an undivided hasPermission would have
\* returned true in every store state between its start and its return
C26_Witness ==
  /\ hcall.pc = "done"
  /\ ~ hcall.result
  /\ hcall.always

\* C30: under concurrent grants and revokes hasPermission(P, T, R, r)
\* returns true only if, at some instant between its start and its return,
\* the store held an active, unexpired grant on (T, R) to P, to a group of
\* P or to public whose permission satisfies r.
C30_TrueOnlyIfSatisfiedDuringCall ==
  (hcall.pc = "done" /\ hcall.result) => hcall.ever

\* a true result of a call that started on a store without a satisfying
\* grant: the grant was made while the call ran, before the query that
\* found it
C30_Witness ==
  /\ hcall.pc = "done"
  /\ hcall.result
  /\ hcall.ever
  /\ ~ hcall.always

====
